---------------------------- MODULE Spec2Model ----------------------------
(***************************************************************************)
(* Model of slideshowmaker.py: the image sequencer (get_image_file_list),  *)
(* the Ken Burns segment renderer (generate_ken_burns_segments), the       *)
(* crossfade planner (build_xfade_filter) and the composer                 *)
(* (create_slideshow).                                                     *)
(*                                                                         *)
(* Times and durations are whole units (the program uses floats; the       *)
(* arithmetic modelled here is the exact arithmetic on the same values).   *)
(* Zoom levels are in hundredths (100 is the literal 1.0).                 *)
(* Python lists are 0-based, TLA+ sequences 1-based: segment_lengths[i]    *)
(* of the source is segment_lengths[i + 1] here.                           *)
(***************************************************************************)
EXTENDS Integers, Sequences, FiniteSets, TLC

VARIABLES
    \* ---- get_image_file_list called on its own (SpecSeq)
    seq_pc,                \* "call" | "returned"
    order_file,            \* the order_file argument: None or a path
    fs,                    \* the file system the call reads
    file_paths,            \* the returned list
    \* ---- build_xfade_filter called on its own (SpecXfade)
    xf_pc,                 \* "call" | "loop" | "returned"
    xf_count,              \* segment_count
    xf_lengths,            \* segment_lengths
    xf_cross,              \* crossfade_duration
    xf_transition,         \* transition
    xf_i,                  \* the loop variable i
    xf_st,                 \* the locals lines, current_label, total_time
    xf_result,             \* the returned (filter_str, final_label)
    \* ---- one run of create_slideshow (Spec)
    pc,                    \* "start" | "render" | "single" | "plan" | "merge" | "done" | "aborted"
    duration_per_image,
    crossfade_duration,
    zoom_factor,
    border_size,
    images,                \* the sequenced image paths
    workspace,             \* the TemporaryDirectory: [exists, files]
    segment_paths,
    segment_lengths,
    plan,                  \* (xfade_filter_str, final_label)
    calls,                 \* every invocation of the rendering engine, in order
    output,                \* what this run has put at output_file
    message                \* what the run printed

seqVars == <<seq_pc, order_file, fs, file_paths>>
xfVars == <<xf_pc, xf_count, xf_lengths, xf_cross, xf_transition, xf_i, xf_st, xf_result>>
runVars == <<pc, duration_per_image, crossfade_duration, zoom_factor, border_size,
             images, workspace, segment_paths, segment_lengths, plan, calls,
             output, message>>
vars == <<seq_pc, order_file, fs, file_paths,
          xf_pc, xf_count, xf_lengths, xf_cross, xf_transition, xf_i, xf_st, xf_result,
          pc, duration_per_image, crossfade_duration, zoom_factor, border_size,
          images, workspace, segment_paths, segment_lengths, plan, calls,
          output, message>>

\* ------------------------------------------------------------------ bounds
MaxLines == 3      \* lines in a manifest
MaxSeg == 5        \* segments handed to build_xfade_filter on its own
MaxDur == 3        \* a segment's duration
MaxCross == 3      \* the crossfade duration
MaxBorder == 1     \* the border size

None == "None"                 \* Python's None, where a path is expected
Nothing == [kind |-> "none"]   \* no value yet, where a record is expected

\* ------------------------------------------------------------ file system
\* A file name is a sequence of tokens: a token is one whitespace character
\* or a maximal run of non-whitespace characters.
Whitespace == {" ", "\n"}
FileNames == {"a.png", "b.jpg", "c.txt"}
ImagesDir == "images"
OrderPath == "order.txt"

\* The extension a glob pattern matches on (case-sensitive).
Ext(f) ==
    CASE f = "a.png" -> "png"
      [] f = "b.jpg" -> "jpg"
      [] OTHER -> "txt"

\* The lines iterating a text file can yield: none is the empty string.
ManifestLines ==
    { <<"\n">>,
      <<"a.png", "\n">>,
      <<" ", "b.jpg", " ", "\n">>,
      <<"c.txt">>,
      <<"a.png", " ", "b.jpg", "\n">> }

\* The sequences over S of length at most n.
SeqsUpTo(S, n) == UNION { [1..k -> S] : k \in 0..n }

Range(s) == { s[k] : k \in 1..Len(s) }

\* Directory enumeration orders of a set of files (two of them: the order
\* is the file system's, not the program's).
RECURSIVE Ascending(_)
Ascending(S) ==
    IF S = {} THEN <<>>
    ELSE LET f == CHOOSE x \in S : \A y \in S : (x = "a.png") \/ (x = "b.jpg" /\ y # "a.png") \/ x = y
         IN <<f>> \o Ascending(S \ {f})

Reverse(s) == [k \in 1..Len(s) |-> s[Len(s) + 1 - k]]

Listings(S) == { Ascending(S), Reverse(Ascending(S)) }

\* What is known of one file's time: its EXIF date (has_exif is FALSE when
\* it is absent or unreadable) and its modification time.
FileTimes ==
    { [has_exif |-> FALSE, exif |-> 0, mtime |-> 0],
      [has_exif |-> FALSE, exif |-> 0, mtime |-> 1],
      [has_exif |-> TRUE, exif |-> 0, mtime |-> 1] }

NoTimes == [has_exif |-> FALSE, exif |-> 0, mtime |-> 0]

AllListings == UNION { Listings(S) : S \in SUBSET FileNames }

FileSystems ==
    [order_exists : BOOLEAN,
     manifest : SeqsUpTo(ManifestLines, MaxLines),
     listing : AllListings,
     times : [FileNames -> FileTimes]]

\* The file systems that differ in something a call can see: no manifest
\* when order_file does not exist, no times for a file not on disk.
Canonical(f) ==
    /\ (~f.order_exists => f.manifest = <<>>)
    /\ \A x \in FileNames \ Range(f.listing) : f.times[x] = NoTimes

\* The file systems a run is started on: every manifest and directory, the
\* files either all of one time or a.png the latest.
RunTimes ==
    { [x \in FileNames |-> NoTimes],
      [x \in FileNames |->
          IF x = "a.png" THEN [has_exif |-> FALSE, exif |-> 0, mtime |-> 1] ELSE NoTimes] }

RunFileSystems ==
    [order_exists : BOOLEAN,
     manifest : SeqsUpTo(ManifestLines, MaxLines),
     listing : AllListings,
     times : RunTimes]

\* ---------------------------------------------------- get_exif_datetime
get_exif_datetime(f, image_path) ==
    LET t == f.times[image_path.name[1]]
    IN IF t.has_exif THEN t.exif ELSE t.mtime

\* -------------------------------------------------- get_image_file_list
\* str.strip()
RECURSIVE LStrip(_)
LStrip(line) ==
    IF line # <<>> /\ Head(line) \in Whitespace THEN LStrip(Tail(line)) ELSE line

RECURSIVE RStrip(_)
RStrip(line) ==
    IF line # <<>> /\ line[Len(line)] \in Whitespace
    THEN RStrip(SubSeq(line, 1, Len(line) - 1))
    ELSE line

Strip(line) == RStrip(LStrip(line))

\* os.path.join(images_dir, name), for a relative name
Join(dir, name) == [dir |-> dir, name |-> name]

\* os.path.exists(fp), for a path in the images directory
Exists(f, fp) == Len(fp.name) = 1 /\ fp.name[1] \in Range(f.listing)

\* [line.strip() for line in f if line.strip()]
RECURSIVE ManifestNames(_)
ManifestNames(lines) ==
    IF lines = <<>> THEN <<>>
    ELSE IF Strip(Head(lines)) # <<>>
         THEN <<Strip(Head(lines))>> \o ManifestNames(Tail(lines))
         ELSE ManifestNames(Tail(lines))

\* [os.path.join(images_dir, name) for name in names]
JoinAll(dir, names) == [k \in 1..Len(names) |-> Join(dir, names[k])]

\* [fp for fp in file_paths if os.path.exists(fp)]
RECURSIVE ExistingPaths(_, _)
ExistingPaths(f, paths) ==
    IF paths = <<>> THEN <<>>
    ELSE IF Exists(f, Head(paths))
         THEN <<Head(paths)>> \o ExistingPaths(f, Tail(paths))
         ELSE ExistingPaths(f, Tail(paths))

\* glob.glob(os.path.join(images_dir, ext)): directory order, one extension
RECURSIVE Glob(_, _, _)
Glob(dir, listing, ext) ==
    IF listing = <<>> THEN <<>>
    ELSE IF Ext(Head(listing)) = ext
         THEN <<Join(dir, <<Head(listing)>>)>> \o Glob(dir, Tail(listing), ext)
         ELSE Glob(dir, Tail(listing), ext)

\* list.sort(key=...): stable, ascending
RECURSIVE InsertByKey(_, _, _)
InsertByKey(f, sorted, fp) ==
    IF sorted = <<>> THEN <<fp>>
    ELSE IF get_exif_datetime(f, Head(sorted)) <= get_exif_datetime(f, fp)
         THEN <<Head(sorted)>> \o InsertByKey(f, Tail(sorted), fp)
         ELSE <<fp>> \o sorted

RECURSIVE SortByKey(_, _)
SortByKey(f, paths) ==
    IF paths = <<>> THEN <<>>
    ELSE InsertByKey(f, SortByKey(f, SubSeq(paths, 1, Len(paths) - 1)), paths[Len(paths)])

\* The manifest's entries sorted like the directory's.
ManifestBranchSorted(images_dir, f) ==
    SortByKey(f, ExistingPaths(f, JoinAll(images_dir, ManifestNames(f.manifest))))

ManifestBranch(images_dir, f) ==
    ExistingPaths(f, JoinAll(images_dir, ManifestNames(f.manifest)))

GlobBranch(images_dir, f) ==
    SortByKey(f, Glob(images_dir, f.listing, "jpg")
                 \o Glob(images_dir, f.listing, "jpeg")
                 \o Glob(images_dir, f.listing, "png"))

get_image_file_list(images_dir, ofile, f) ==
    IF ofile # None /\ f.order_exists
    THEN ManifestBranch(images_dir, f)
    ELSE GlobBranch(images_dir, f)

\* ------------------------------------------------- idle values of a group
SeqIdle ==
    /\ seq_pc = "idle" /\ order_file = None /\ file_paths = <<>>
    /\ fs = [order_exists |-> FALSE, manifest |-> <<>>, listing |-> <<>>,
             times |-> [x \in FileNames |-> NoTimes]]

XfIdle ==
    /\ xf_pc = "idle" /\ xf_count = 0 /\ xf_lengths = <<>> /\ xf_cross = 0
    /\ xf_transition = "fade" /\ xf_i = 0 /\ xf_st = Nothing /\ xf_result = Nothing

RunIdle ==
    /\ pc = "idle" /\ duration_per_image = 0 /\ crossfade_duration = 0
    /\ zoom_factor = 0 /\ border_size = 0 /\ images = <<>>
    /\ workspace = [exists |-> FALSE, files |-> {}]
    /\ segment_paths = <<>> /\ segment_lengths = <<>> /\ plan = Nothing
    /\ calls = <<>> /\ output = Nothing /\ message = None

\* ------------------------------------ SpecSeq: get_image_file_list alone
InitSeq ==
    /\ seq_pc = "call"
    /\ order_file \in {None, OrderPath}
    /\ fs \in FileSystems
    /\ Canonical(fs)
    /\ file_paths = <<>>
    /\ XfIdle
    /\ RunIdle

CallSequencer ==
    /\ seq_pc = "call"
    /\ file_paths' = get_image_file_list(ImagesDir, order_file, fs)
    /\ seq_pc' = "returned"
    /\ UNCHANGED <<order_file, fs>>
    /\ UNCHANGED xfVars
    /\ UNCHANGED runVars

NextSeq == CallSequencer

SpecSeq == InitSeq /\ [][NextSeq]_vars

\* ---------------------------------------------------- build_xfade_filter
\* "[{i}:v]", input i of the merge command, and "[v{i}]", the output of
\* crossfade i
InLabel(i) == [kind |-> "in", idx |-> i]
OutLabel(i) == [kind |-> "v", idx |-> i]

Transitions == {"fade", "wipeleft"}

\* The running total started at zero.
XfadeEnterZero(lengths) ==
    [lines |-> <<>>, current_label |-> InLabel(0), total_time |-> 0]

\* The locals on entry to the loop.
XfadeEnter(lengths) ==
    [lines |-> <<>>, current_label |-> InLabel(0), total_time |-> lengths[1]]

\* The next segment's length added with no overlap taken off.
NextTotalNoOverlap(total_time, length, crossfade) == total_time + length

\* The effective new total length once segment i is crossfaded in.
NextTotal(total_time, length, crossfade) == total_time + (length - crossfade)

\* One iteration of the loop, for i in range(1, segment_count).
XfadeBody(st, i, lengths, crossfade, transition) ==
    LET offset == st.total_time - crossfade
        out_label == OutLabel(i)
        line == [left |-> st.current_label, right |-> InLabel(i),
                 transition |-> transition, duration |-> crossfade,
                 offset |-> offset, out |-> out_label]
    IN [lines |-> Append(st.lines, line),
        current_label |-> out_label,
        total_time |-> NextTotal(st.total_time, lengths[i + 1], crossfade)]

\* (filter_str, final_label): filter_str is the list of lines that "; "
\* joins, the empty list for the empty string.
XfadeReturn(st) == [filter_str |-> st.lines, final_label |-> st.current_label]

XfadeDegenerate == [filter_str |-> <<>>, final_label |-> InLabel(0)]

RECURSIVE XfadeLoop(_, _, _, _, _, _)
XfadeLoop(st, i, count, lengths, crossfade, transition) ==
    IF i >= count THEN st
    ELSE XfadeLoop(XfadeBody(st, i, lengths, crossfade, transition),
                   i + 1, count, lengths, crossfade, transition)

build_xfade_filter(count, lengths, crossfade, transition) ==
    IF count <= 1
    THEN XfadeDegenerate
    ELSE XfadeReturn(XfadeLoop(XfadeEnter(lengths), 1, count, lengths,
                               crossfade, transition))

\* -------------------------------------- SpecXfade: build_xfade_filter alone
InitXfade ==
    /\ xf_pc = "call"
    /\ xf_lengths \in SeqsUpTo(1..MaxDur, MaxSeg)
    /\ xf_count = Len(xf_lengths)
    /\ xf_cross \in 0..MaxCross
    /\ xf_transition \in Transitions
    /\ xf_i = 0
    /\ xf_st = Nothing
    /\ xf_result = Nothing
    /\ SeqIdle
    /\ RunIdle

\* segment_count <= 1: return at once
XfadeCallDegenerate ==
    /\ xf_pc = "call"
    /\ xf_count <= 1
    /\ xf_result' = XfadeDegenerate
    /\ xf_pc' = "returned"
    /\ UNCHANGED <<xf_count, xf_lengths, xf_cross, xf_transition, xf_i, xf_st>>
    /\ UNCHANGED seqVars
    /\ UNCHANGED runVars

XfadeCall ==
    /\ xf_pc = "call"
    /\ xf_count > 1
    /\ xf_st' = XfadeEnter(xf_lengths)
    /\ xf_i' = 1
    /\ xf_pc' = "loop"
    /\ UNCHANGED <<xf_count, xf_lengths, xf_cross, xf_transition, xf_result>>
    /\ UNCHANGED seqVars
    /\ UNCHANGED runVars

XfadeIterate ==
    /\ xf_pc = "loop"
    /\ xf_i < xf_count
    /\ xf_st' = XfadeBody(xf_st, xf_i, xf_lengths, xf_cross, xf_transition)
    /\ xf_i' = xf_i + 1
    /\ UNCHANGED <<xf_pc, xf_count, xf_lengths, xf_cross, xf_transition, xf_result>>
    /\ UNCHANGED seqVars
    /\ UNCHANGED runVars

XfadeFinish ==
    /\ xf_pc = "loop"
    /\ xf_i >= xf_count
    /\ xf_result' = XfadeReturn(xf_st)
    /\ xf_pc' = "returned"
    /\ UNCHANGED <<xf_count, xf_lengths, xf_cross, xf_transition, xf_i, xf_st>>
    /\ UNCHANGED seqVars
    /\ UNCHANGED runVars

NextXfade ==
    \/ XfadeCallDegenerate
    \/ XfadeCall
    \/ XfadeIterate
    \/ XfadeFinish

SpecXfade == InitXfade /\ [][NextXfade]_vars

\* The loop taken step by step returns what the call returns.
XfadeStepwiseAgrees ==
    xf_pc = "returned"
        => xf_result = build_xfade_filter(xf_count, xf_lengths, xf_cross, xf_transition)

\* ------------------------------------------------ build_ken_burns_filter
ZoomOne == 100             \* the literal 1.0, in hundredths
Fps == 25
SlideshowWidth == 1920
SlideshowHeight == 1080
BorderColor == "black"
CrossfadeTransition == "fade"
OutputFile == "slideshow.mp4"

ZoomFactors == {100, 110}  \* zoom_factor, in hundredths

build_ken_burns_filter(duration, fps, start_zoom, end_zoom, border, color, width, height) ==
    LET total_frames == duration * fps
        inner_w == width - 2 * border
        inner_h == height - 2 * border
        zoompan_part == [z_from |-> start_zoom, z_to |-> end_zoom,
                         d |-> total_frames, s |-> <<inner_w, inner_h>>]
    IN IF border > 0
       THEN [zoompan |-> zoompan_part,
             pad |-> <<width, height, border, border, color>>]
       ELSE [zoompan |-> zoompan_part, pad |-> <<>>]

\* ------------------------------------------- generate_ken_burns_segments
\* Every segment zooming in.
ZoomTrajectoryAlwaysIn(i, zoom) == <<ZoomOne, zoom>>

\* (start_zoom, end_zoom) of segment i
ZoomTrajectory(i, zoom) ==
    IF i % 2 = 0 THEN <<ZoomOne, zoom>> ELSE <<zoom, ZoomOne>>

\* os.path.join(tmp_dir, f"segment_{i:03d}.mp4")
SegPath(i) == [dir |-> "tmp", idx |-> i]

\* ffmpeg_cmd of segment i
SegmentCmd(i, img_path, duration, zoom, border) ==
    LET z == ZoomTrajectory(i, zoom)
    IN [kind |-> "segment",
        t |-> duration,
        input |-> img_path,
        vf |-> build_ken_burns_filter(duration, Fps, z[1], z[2], border,
                                      BorderColor, SlideshowWidth, SlideshowHeight),
        r |-> Fps,
        out |-> SegPath(i)]

\* The clip a successful segment render leaves at cmd.out.
RenderedClip(cmd) ==
    [kind |-> "segment", image |-> cmd.input, vf |-> cmd.vf, length |-> cmd.t]

\* -------------------------------------------------------- create_slideshow
\* A workspace nothing removes.
TemporaryDirectoryLeak(ws) == ws

\* The with block's exit: the directory and everything in it are removed.
TemporaryDirectoryExit(ws) == [exists |-> FALSE, files |-> {}]

FileAt(ws, path) == (CHOOSE e \in ws.files : e.path = path).clip

\* The single-segment case never taken.
IsSingleSegmentNever(paths) == FALSE

\* if len(segment_paths) == 1
IsSingleSegment(paths) == Len(paths) = 1

\* The segments handed to the merge last first.
MergeInputsReversed(paths) == Reverse(paths)

\* The inputs of the merge command: -i seg_path, for seg_path in segment_paths
MergeInputs(paths) == paths

\* ffmpeg_cmd of the merge
MergeCmd(paths, p) ==
    IF p.filter_str # <<>>
    THEN [kind |-> "merge", inputs |-> MergeInputs(paths),
          filter_complex |-> p.filter_str, map |-> <<p.final_label>>,
          codec |-> "libx264", out |-> OutputFile]
    ELSE [kind |-> "merge", inputs |-> MergeInputs(paths),
          filter_complex |-> <<>>, map |-> <<>>,
          codec |-> "copy", out |-> OutputFile]

\* The file a successful merge leaves at output_file.
MergedClip(ws, cmd) ==
    [kind |-> "merged",
     inputs |-> [k \in 1..Len(cmd.inputs) |-> FileAt(ws, cmd.inputs[k])],
     filter_complex |-> cmd.filter_complex,
     map |-> cmd.map]

\* What a failed engine invocation can leave at its output path: nothing,
\* or an incomplete file (ffmpeg -y opens its output before it encodes).
FailedOutputs == {Nothing, [kind |-> "partial"]}

\* What the sequencer can return to a run: get_image_file_list on every
\* order_file argument and file system.
SequencerResults ==
    { get_image_file_list(ImagesDir, ofile, f) :
        ofile \in {None, OrderPath}, f \in RunFileSystems }

Init ==
    /\ pc = "start"
    /\ duration_per_image \in 1..MaxDur
    /\ crossfade_duration \in 0..MaxCross
    /\ zoom_factor \in ZoomFactors
    /\ border_size \in 0..MaxBorder
    /\ images = <<>>
    /\ workspace = [exists |-> FALSE, files |-> {}]
    /\ segment_paths = <<>>
    /\ segment_lengths = <<>>
    /\ plan = Nothing
    /\ calls = <<>>
    /\ output = Nothing
    /\ message = None
    /\ SeqIdle
    /\ XfIdle

\* An empty list taken into the with block like any other.
StartEmptyNoCheck ==
    /\ pc = "start"
    /\ \E imgs \in SequencerResults :
          /\ imgs = <<>>
          /\ images' = imgs
    /\ workspace' = [exists |-> TRUE, files |-> {}]
    /\ pc' = "render"
    /\ UNCHANGED <<duration_per_image, crossfade_duration, zoom_factor, border_size,
                   segment_paths, segment_lengths, plan, calls, output, message>>
    /\ UNCHANGED seqVars
    /\ UNCHANGED xfVars

\* images = get_image_file_list(...); not images: print and return
StartEmpty ==
    /\ pc = "start"
    /\ \E imgs \in SequencerResults :
          /\ imgs = <<>>
          /\ images' = imgs
    /\ message' = "No images found"
    /\ pc' = "done"
    /\ UNCHANGED <<duration_per_image, crossfade_duration, zoom_factor, border_size,
                   workspace, segment_paths, segment_lengths, plan, calls, output>>
    /\ UNCHANGED seqVars
    /\ UNCHANGED xfVars

\* images found: enter the with block
Start ==
    /\ pc = "start"
    /\ \E imgs \in SequencerResults :
          /\ imgs # <<>>
          /\ images' = imgs
    /\ workspace' = [exists |-> TRUE, files |-> {}]
    /\ pc' = "render"
    /\ UNCHANGED <<duration_per_image, crossfade_duration, zoom_factor, border_size,
                   segment_paths, segment_lengths, plan, calls, output, message>>
    /\ UNCHANGED seqVars
    /\ UNCHANGED xfVars

\* One iteration of the loop of generate_ken_burns_segments, the engine
\* exiting 0.  The loop variable i is len(segment_paths).
RenderSegmentOk ==
    /\ pc = "render"
    /\ Len(segment_paths) < Len(images)
    /\ LET i == Len(segment_paths)
           cmd == SegmentCmd(i, images[i + 1], duration_per_image, zoom_factor, border_size)
       IN /\ calls' = Append(calls, [cmd |-> cmd, ok |-> TRUE])
          /\ workspace' = [workspace EXCEPT
                 !.files = @ \cup {[path |-> cmd.out, clip |-> RenderedClip(cmd)]}]
          /\ segment_paths' = Append(segment_paths, cmd.out)
          /\ segment_lengths' = Append(segment_lengths, duration_per_image)
    /\ UNCHANGED <<pc, duration_per_image, crossfade_duration, zoom_factor, border_size,
                   images, plan, output, message>>
    /\ UNCHANGED seqVars
    /\ UNCHANGED xfVars

\* The engine exits non-zero: subprocess.run(check=True) raises, and the
\* exception leaves the with block.
RenderSegmentFail ==
    /\ pc = "render"
    /\ Len(segment_paths) < Len(images)
    /\ LET i == Len(segment_paths)
           cmd == SegmentCmd(i, images[i + 1], duration_per_image, zoom_factor, border_size)
       IN calls' = Append(calls, [cmd |-> cmd, ok |-> FALSE])
    /\ workspace' = TemporaryDirectoryExit(workspace)
    /\ message' = "CalledProcessError"
    /\ pc' = "aborted"
    /\ UNCHANGED <<duration_per_image, crossfade_duration, zoom_factor, border_size,
                   images, segment_paths, segment_lengths, plan, output>>
    /\ UNCHANGED seqVars
    /\ UNCHANGED xfVars

\* Only one segment: os.rename it to output_file, print, return.
SingleSegment ==
    /\ pc = "render"
    /\ Len(segment_paths) = Len(images)
    /\ IsSingleSegment(segment_paths)
    /\ output' = FileAt(workspace, segment_paths[1])
    /\ workspace' = TemporaryDirectoryExit(
           [workspace EXCEPT !.files = { e \in @ : e.path # segment_paths[1] }])
    /\ message' = "Slideshow created with only one image"
    /\ pc' = "done"
    /\ UNCHANGED <<duration_per_image, crossfade_duration, zoom_factor, border_size,
                   images, segment_paths, segment_lengths, plan, calls>>
    /\ UNCHANGED seqVars
    /\ UNCHANGED xfVars

\* STEP 2: build the crossfade filter.
PlanTransitions ==
    /\ pc = "render"
    /\ Len(segment_paths) = Len(images)
    /\ ~IsSingleSegment(segment_paths)
    /\ plan' = build_xfade_filter(Len(segment_paths), segment_lengths,
                                  crossfade_duration, CrossfadeTransition)
    /\ pc' = "merge"
    /\ UNCHANGED <<duration_per_image, crossfade_duration, zoom_factor, border_size,
                   images, workspace, segment_paths, segment_lengths, calls,
                   output, message>>
    /\ UNCHANGED seqVars
    /\ UNCHANGED xfVars

\* The merge, the engine exiting 0.
MergeOk ==
    /\ pc = "merge"
    /\ LET cmd == MergeCmd(segment_paths, plan)
       IN /\ calls' = Append(calls, [cmd |-> cmd, ok |-> TRUE])
          /\ output' = MergedClip(workspace, cmd)
    /\ workspace' = TemporaryDirectoryExit(workspace)
    /\ message' = "Slideshow created with alternating zoom-in/out crossfades"
    /\ pc' = "done"
    /\ UNCHANGED <<duration_per_image, crossfade_duration, zoom_factor, border_size,
                   images, segment_paths, segment_lengths, plan>>
    /\ UNCHANGED seqVars
    /\ UNCHANGED xfVars

\* The merge, the engine exiting non-zero: the engine was given output_file
\* itself as the path to write.
MergeFail ==
    /\ pc = "merge"
    /\ LET cmd == MergeCmd(segment_paths, plan)
       IN calls' = Append(calls, [cmd |-> cmd, ok |-> FALSE])
    /\ output' \in FailedOutputs
    /\ workspace' = TemporaryDirectoryExit(workspace)
    /\ message' = "CalledProcessError"
    /\ pc' = "aborted"
    /\ UNCHANGED <<duration_per_image, crossfade_duration, zoom_factor, border_size,
                   images, segment_paths, segment_lengths, plan>>
    /\ UNCHANGED seqVars
    /\ UNCHANGED xfVars

Next ==
    \/ StartEmpty
    \/ Start
    \/ RenderSegmentOk
    \/ RenderSegmentFail
    \/ SingleSegment
    \/ PlanTransitions
    \/ MergeOk
    \/ MergeFail

Spec == Init /\ [][Next]_vars

\* =================================================================== claims

\* ---- C1
\* The merged timeline's length before step k, as the claim defines it:
\* R(1) = d[0], R(k + 1) = R(k) + d[k] - c.
RECURSIVE C1_R(_, _, _)
C1_R(d, c, k) == IF k = 1 THEN d[1] ELSE C1_R(d, c, k - 1) + d[k] - c

RECURSIVE C9_Sum(_)
C9_Sum(d) == IF d = <<>> THEN 0 ELSE Head(d) + C9_Sum(Tail(d))

\* The length of what the planner names as the final output: the running
\* total after the last step, or the sole input's length when the plan is
\* empty.
C9_OutputLength ==
    IF xf_result.filter_str = <<>>
    THEN xf_lengths[xf_result.final_label.idx + 1]
    ELSE xf_st.total_time

\* C9: for N >= 2 the running total the planner holds after its last step
\* is sum(d) - (N - 1) * c; for N = 1 the plan is empty and the output is
\* the sole segment, whose length has no overlap subtracted.
C9_MergedLength ==
    (xf_pc = "returned" /\ xf_count >= 1) =>
        /\ C9_OutputLength = C9_Sum(xf_lengths) - (xf_count - 1) * xf_cross
        /\ (xf_count >= 2) =>
              xf_st.total_time = C9_Sum(xf_lengths) - (xf_count - 1) * xf_cross
        /\ (xf_count = 1) =>
              /\ xf_result.filter_str = <<>>
              /\ xf_result.final_label = InLabel(0)
              /\ C9_OutputLength = xf_lengths[1]

C9_Witness ==
    /\ xf_pc = "returned"
    /\ xf_lengths = <<1, 2, 3, 2>>
    /\ xf_cross = 1
    /\ xf_st.total_time = 5

\* ---- C7
\* t is line without its leading and trailing whitespace.
C7_IsTrimOf(line, t) ==
    \E a \in 1..(Len(line) + 1), b \in 0..Len(line) :
        /\ t = SubSeq(line, a, b)
        /\ \A k \in 1..(a - 1) : line[k] \in Whitespace
        /\ \A k \in (b + 1)..Len(line) : line[k] \in Whitespace
        /\ (t # <<>>) => (t[1] \notin Whitespace /\ t[Len(t)] \notin Whitespace)

C7_Trimmed(line) ==
    CHOOSE t \in { SubSeq(line, a, b) : a \in 1..(Len(line) + 1), b \in 0..Len(line) } :
        C7_IsTrimOf(line, t)

\* The manifest lines that are not blank and name a file on disk.
C7_Kept ==
    { k \in 1..Len(fs.manifest) :
        LET t == C7_Trimmed(fs.manifest[k])
        IN Len(t) = 1 /\ \E n \in 1..Len(fs.listing) : fs.listing[n] = t[1] }

\* The j-th smallest member of K.
C7_Nth(K, j) == CHOOSE k \in K : Cardinality({ m \in K : m < k }) = j - 1

\* C7: given a manifest path whose file exists, get_image_file_list
\* returns the manifest's trimmed non-blank lines that exist on disk, each
\* joined to the images directory, in manifest order and unsorted, whatever
\* the timestamps and the directory's enumeration order.
C7_ManifestOrder ==
    (seq_pc = "returned" /\ order_file # None /\ fs.order_exists) =>
        /\ Len(file_paths) = Cardinality(C7_Kept)
        /\ \A j \in 1..Len(file_paths) :
              file_paths[j] = [dir |-> ImagesDir,
                               name |-> C7_Trimmed(fs.manifest[C7_Nth(C7_Kept, j)])]
        /\ (Cardinality(C7_Kept) = Len(fs.manifest)) =>
              \A j \in 1..Len(fs.manifest) :
                  file_paths[j].name = C7_Trimmed(fs.manifest[j])

\* The manifest names b.jpg before a.png, against both the enumeration
\* order and the times, and has a blank line and a line naming no file.
C7_Witness ==
    /\ seq_pc = "returned"
    /\ order_file # None
    /\ fs.order_exists
    /\ fs.manifest = << <<" ", "b.jpg", " ", "\n">>, <<"\n">>, <<"a.png", "\n">> >>
    /\ fs.listing = <<"a.png", "b.jpg">>
    /\ fs.times["a.png"].mtime = 0
    /\ fs.times["b.jpg"].mtime = 1
    /\ file_paths = << [dir |-> ImagesDir, name |-> <<"b.jpg">>],
                       [dir |-> ImagesDir, name |-> <<"a.png">>] >>

\* ---- C2
\* C2: a run whose crossfade duration is at least the smallest segment
\* duration (every segment lasts duration_per_image) is rejected before the
\* rendering engine is invoked at all.
C2_RejectedBeforeRendering ==
    (crossfade_duration >= duration_per_image) => calls = <<>>

\* ---- C3
\* C3: an engine invocation that exits non-zero is the run's last one, the
\* run is aborted by it, and the run has put nothing at the output path.
C3_AbortLeavesNoOutput ==
    \A k \in 1..Len(calls) :
        (~calls[k].ok) =>
            /\ k = Len(calls)
            /\ pc = "aborted"
            /\ output = Nothing

\* ---- C4
\* C4: once a run has ended, on any path, the temporary workspace and every
\* segment clip in it are gone.
C4_WorkspaceRemoved ==
    (pc \in {"done", "aborted"}) =>
        /\ ~workspace.exists
        /\ workspace.files = {}

\* A run that rendered two segments into the workspace and then failed.
C4_Witness ==
    /\ pc = "aborted"
    /\ Len(segment_paths) = 2
    /\ Len(calls) = 3
    /\ ~calls[3].ok
    /\ ~workspace.exists

\* ---- C5
\* C5: when the sequencer resolves no image the run reports "No images
\* found" and ends normally, with no engine invocation, no workspace and no
\* output.
C5_EmptyInput ==
    (pc # "start" /\ images = <<>>) =>
        /\ pc = "done"
        /\ message = "No images found"
        /\ calls = <<>>
        /\ ~workspace.exists
        /\ workspace.files = {}
        /\ segment_paths = <<>>
        /\ output = Nothing

C5_Witness ==
    /\ pc = "done"
    /\ images = <<>>
    /\ message = "No images found"
    /\ calls = <<>>

\* ---- C6
\* C6: with exactly one image, the engine is never invoked for a merge;
\* once the run is done it has invoked the engine exactly once, for the
\* segment, and the output is that clip, moved, of length
\* duration_per_image; and the planner's answer for the run's one segment
\* is the empty plan whose final label is the sole input.
C6_SingleImage ==
    (Len(images) = 1) =>
        /\ \A k \in 1..Len(calls) : calls[k].cmd.kind = "segment"
        /\ Len(calls) <= 1
        /\ (pc = "done") =>
              /\ Len(calls) = 1
              /\ calls[1].ok
              /\ calls[1].cmd.input = images[1]
              /\ output.kind = "segment"
              /\ output.image = images[1]
              /\ output.vf = calls[1].cmd.vf
              /\ output.length = duration_per_image
              /\ plan = Nothing
              /\ build_xfade_filter(Len(segment_paths), segment_lengths,
                                    crossfade_duration, CrossfadeTransition)
                    = [filter_str |-> <<>>, final_label |-> InLabel(0)]

C6_Witness ==
    /\ pc = "done"
    /\ Len(images) = 1
    /\ Len(calls) = 1
    /\ output.kind = "segment"
    /\ message = "Slideshow created with only one image"

\* ---- C8
C8_IsEven(i) == \E h \in 0..i : i = 2 * h

\* C8: segment i is rendered zooming from 1.0 to zoom_factor when i is
\* even and from zoom_factor to 1.0 when i is odd; segment 0 zooms in and
\* each segment reverses the one before it.
C8_ZoomAlternates ==
    \A k \in 1..Len(calls) :
        (calls[k].cmd.kind = "segment") =>
            LET z == calls[k].cmd.vf.zoompan
                i == calls[k].cmd.out.idx
            IN /\ i = k - 1
               /\ C8_IsEven(i) => (z.z_from = 100 /\ z.z_to = zoom_factor)
               /\ (~C8_IsEven(i)) => (z.z_from = zoom_factor /\ z.z_to = 100)
               /\ (i = 0) => (z.z_from = 100 /\ z.z_to = zoom_factor)
               /\ (k > 1) =>
                     /\ calls[k - 1].cmd.vf.zoompan.z_from = z.z_to
                     /\ calls[k - 1].cmd.vf.zoompan.z_to = z.z_from

C8_Witness ==
    /\ Len(calls) >= 3
    /\ zoom_factor = 110
    /\ calls[1].cmd.vf.zoompan.z_to = 110
    /\ calls[2].cmd.vf.zoompan.z_from = 110
    /\ calls[2].cmd.vf.zoompan.z_to = 100
    /\ calls[3].cmd.kind = "segment"
    /\ calls[3].cmd.vf.zoompan.z_from = 100

\* ---- C10
\* C10: with N >= 2 images the engine's invocations are, in order, segment
\* i from image i for i = 0..N-1 and then, only after all N, one merge
\* whose inputs are the N segment clips in index order; a run no invocation
\* of which failed makes exactly those N + 1; and the output path is
\* written only by the merge.
C10_InvocationOrder ==
    LET N == Len(images)
    IN (N >= 2) =>
        /\ Len(calls) <= N + 1
        /\ \A k \in 1..Len(calls) :
              IF k <= N
              THEN /\ calls[k].cmd.kind = "segment"
                   /\ calls[k].cmd.input = images[k]
                   /\ calls[k].cmd.out = [dir |-> "tmp", idx |-> k - 1]
              ELSE /\ calls[k].cmd.kind = "merge"
                   /\ \A j \in 1..N : calls[j].ok
                   /\ calls[k].cmd.inputs = [j \in 1..N |-> [dir |-> "tmp", idx |-> j - 1]]
        /\ (output # Nothing) =>
              /\ Len(calls) = N + 1
              /\ calls[N + 1].cmd.out = OutputFile
        /\ (pc = "done") =>
              /\ Len(calls) = N + 1
              /\ \A k \in 1..(N + 1) : calls[k].ok
              /\ output.kind = "merged"
              /\ Len(output.inputs) = N
              /\ \A j \in 1..N : output.inputs[j].image = images[j]

C10_Witness ==
    /\ pc = "done"
    /\ Len(images) = 3
    /\ images[1] # images[2]
    /\ Len(calls) = 4
    /\ output.kind = "merged"

=============================================================================
